---- MODULE Spec2Model ----
(***************************************************************************)
(* Hazard recognition and learning pipeline of pot_hole_detector:          *)
(* the learned-sample store of App.tsx (startup load, training insert,     *)
(* delete, local mirror, remote backend) and the frame loop (model         *)
(* initialisation, animate, teardown).                                     *)
(*                                                                         *)
(* React state: learnedSamples is the value of the useState cell with      *)
(* every queued update applied.  React applies queued updates in call      *)
(* order at the next render, so the fold is the value that render commits. *)
(* What the render adds, the effect on [learnedSamples] (App.tsx 47-52),   *)
(* is the separate action Commit.                                          *)
(***************************************************************************)
EXTENDS Integers, Sequences, FiniteSets, TLC

\* ---- bounds of the model ----
MaxOps == 2
MaxClock == 2
MaxFrames == 2

\* ---- values ----
Absent == "absent"
DefaultUrl == "https://zipipywbykofdikpvkor.supabase.co"
DefaultKey == "sb_publishable"
\* environments: nothing set, or a URL that is no http URL.  (A URL and key of a
\* backend make the same store as nothing set, which falls back to the built-in ones.)
Environments == {[url |-> Absent, key |-> Absent],
                 [url |-> "local", key |-> "anon-key"]}

\* values of localStorage.getItem(STORAGE_KEY): no item, a text JSON.parse rejects,
\* or the JSON text of a sample list
NoItem == [kind |-> "null", json |-> <<>>]
Garbage == [kind |-> "garbage", json |-> <<>>]
NoVector == <<>>
Embeddings == {<<1, 0>>, <<0, 1>>}
\* the embeddings a training crop may get
TrainedEmbeddings == {<<0, 1>>}

NoSample == [id |-> -1, embedding |-> NoVector, thumbnail |-> "", timestamp |-> -1]
\* a sample kept from an earlier session (created at clock reading 0)
OldSample == [id |-> 0, embedding |-> <<1, 0>>, thumbnail |-> "jpeg", timestamp |-> 0]

Ops == 1..MaxOps

\* the resolution the camera is asked for (CameraFeed.tsx 28) and the resolutions a
\* camera may supply instead
IdealResolution == [videoWidth |-> 1280, videoHeight |-> 720]
Resolutions ==
  {[videoWidth |-> 640, videoHeight |-> 480], IdealResolution,
   [videoWidth |-> 1920, videoHeight |-> 1080]}

\* a rectangle drawn by the operator: w and h in thousandths of the displayed source,
\* with the width and height of that source (the video or the uploaded image) in pixels
Selection(rect, source) ==
  [w |-> rect.w, h |-> rect.h, sourceWidth |-> source.videoWidth, sourceHeight |-> source.videoHeight]
NoSelection == [w |-> 0, h |-> 0, sourceWidth |-> 0, sourceHeight |-> 0]
\* half of the source each way
HalfFrame == [w |-> 500, h |-> 500]
\* rectangles of 0.5%, 1.2% and 50% of the source
SelectedRects ==
  {[w |-> 5, h |-> 500], [w |-> 12, h |-> 500], [w |-> 500, h |-> 12], [w |-> 500, h |-> 500]}
\* an uploaded image smaller than the camera's frames
UploadedImageSize == [videoWidth |-> 640, videoHeight |-> 480]

VARIABLES
  env,                \* process.env / import.meta.env: [url, key]
  app,                \* "unmounted" | "mounted" | "torndown" | "crashed"
  learnedSamples,     \* useState cell, App.tsx 15
  learnedSamplesRef,  \* useRef cell, App.tsx 23
  effectPending,      \* learnedSamples changed since the last commit
  localStorage,       \* item STORAGE_KEY: NoItem, Garbage or a JSON text
  remote,             \* rows of the table 'potholes'
  isSyncing,          \* useState cell, App.tsx 18
  load,               \* loadMemory: [pc, data]
  ops,                \* the operator's requests: handleAreaSelected / handleDeleteSample
  now,                \* Date.now()
  modelInit,          \* promise of initLocalModel: "idle" | "pending" | "resolved" | "rejected"
  modelsRef,          \* modelsRef.current is set
  requestRef,         \* requestRef.current
  rafPending,         \* id of the pending requestAnimationFrame callback, 0 if none
  rafCount,           \* ids handed out by requestAnimationFrame
  passes,             \* calls of animate so far
  loopError,          \* what ended animate by an exception: "none" | "detector" | "embedder"
  detections,         \* useState cell, App.tsx 14
  video,              \* the video element's videoWidth and videoHeight in source pixels
  selections,         \* per request, the rectangle handleAreaSelected was called with
  heldFrame           \* the frame the video element holds, where a specification keeps it
                      \* (SpecMatch); the other specifications draw a frame per pass

storeVars == <<learnedSamples, learnedSamplesRef, effectPending, localStorage, remote, isSyncing, load, ops, now>>
loopVars == <<modelInit, modelsRef, requestRef, rafPending, rafCount, passes, loopError, detections>>
vars == <<env, video, heldFrame, selections, app, learnedSamples, learnedSamplesRef, effectPending, localStorage, remote,
          isSyncing, load, ops, now, modelInit, modelsRef, requestRef, rafPending, rafCount,
          passes, loopError, detections>>

\* ---- supabaseClient.ts ----

\* getEnv(key): process.env / import.meta.env, undefined when unset or empty
getEnv(v) == v

StartsWithHttp(u) == u \in {DefaultUrl}

supabaseUrl == IF getEnv(env.url) # Absent THEN getEnv(env.url) ELSE DefaultUrl
supabaseAnonKey == IF getEnv(env.key) # Absent THEN getEnv(env.key) ELSE DefaultKey

isSupabaseConfigured ==
  supabaseUrl # Absent /\ StartsWithHttp(supabaseUrl) /\ supabaseAnonKey # Absent

\* ---- JSON text of a sample list ----
\* JSON.stringify writes the list as a text; JSON.parse of that text gives the list
\* back (ids, timestamps, thumbnails and finite numbers survive the round trip) and
\* throws on a text that is no JSON.
JSONStringify(list) == [kind |-> "json", json |-> list]
JSONParseThrows(text) == text.kind = "garbage"
JSONParse(text) == text.json

\* ---- sequences ----
Range(s) == {s[i] : i \in 1..Len(s)}
Ids(s) == {s[i].id : i \in 1..Len(s)}

\* all orders of the rows that .order('timestamp', {ascending: false}) may return
OrderedByTimestampDesc(rows) ==
  {s \in [1..Cardinality(rows) -> rows] :
      /\ Range(s) = rows
      /\ \A i \in 1..(Len(s) - 1) : s[i].timestamp >= s[i + 1].timestamp}

\* ---- updaters passed to setLearnedSamples: the list they return and the text
\* they write to the mirror (App.tsx 215-219 and 248-252) ----
\* a variant of InsertUpdater that puts the new sample behind the others
InsertUpdaterAppend(prev, newSample) ==
  [updated |-> Append(prev, newSample), stored |-> JSONStringify(Append(prev, newSample))]

\* a variant of DeleteUpdater that drops the list from the deleted sample on
DeleteUpdaterTruncate(prev, id) ==
  LET keep == {n \in 0..Len(prev) : \A k \in 1..n : prev[k].id # id}
      updated == SubSeq(prev, 1, CHOOSE n \in keep : \A m \in keep : m <= n)
  IN [updated |-> updated, stored |-> JSONStringify(updated)]

\* a variant of InsertUpdater that writes the list it was given, not the one it returns
InsertUpdaterStaleMirror(prev, newSample) ==
  [updated |-> <<newSample>> \o prev, stored |-> JSONStringify(prev)]

\* a variant of InsertUpdater that builds on the list last committed to the ref, as a
\* handler that read the snapshot before its await would
InsertUpdaterFromRef(prev, newSample) ==
  [updated |-> <<newSample>> \o learnedSamplesRef,
   stored |-> JSONStringify(<<newSample>> \o learnedSamplesRef)]

InsertUpdater(prev, newSample) ==
  LET updated == <<newSample>> \o prev
  IN [updated |-> updated, stored |-> JSONStringify(updated)]
DeleteUpdater(prev, id) ==
  LET updated == SelectSeq(prev, LAMBDA s : s.id # id)
  IN [updated |-> updated, stored |-> JSONStringify(updated)]

IdleOp == [kind |-> "none", pc |-> "idle", sample |-> NoSample, id |-> -1, resp |-> "none", err |-> "none"]

Init ==
  /\ env \in Environments
  /\ app = "unmounted"
  /\ learnedSamples = <<>>
  /\ learnedSamplesRef = <<>>
  /\ effectPending = FALSE
  \* what earlier sessions left: the item a local-only session reads, the mirror a
  \* session with a backend wrote, the rows of the backend
  /\ localStorage \in IF isSupabaseConfigured
                      THEN {NoItem, JSONStringify(<<OldSample>>)}
                      ELSE {NoItem, Garbage, JSONStringify(<<>>), JSONStringify(<<OldSample>>)}
  /\ remote \in IF isSupabaseConfigured THEN {{}, {OldSample}} ELSE {{}}
  /\ isSyncing = FALSE
  /\ load = [pc |-> "idle", data |-> <<>>, error |-> FALSE]
  /\ ops = [i \in Ops |-> IdleOp]
  /\ now = 0
  /\ modelInit = "idle"
  /\ modelsRef = FALSE
  /\ requestRef = 0
  /\ rafPending = 0
  /\ rafCount = 0
  /\ passes = 0
  /\ loopError = "none"
  /\ detections = <<>>
  /\ video = IdealResolution
  /\ selections = [i \in Ops |-> NoSelection]
  /\ heldFrame = [videoReady |-> FALSE]

\* the root is unmounted (teardown, or an error thrown while rendering or in an
\* effect with no error boundary): the cleanup of App.tsx 64 runs
Cleanup(newApp) ==
  /\ app' = newApp
  /\ rafPending' = IF rafPending = requestRef THEN 0 ELSE rafPending
  \* the useState cells go with the component
  /\ learnedSamples' = <<>>
  /\ effectPending' = FALSE
  /\ isSyncing' = FALSE
  /\ detections' = <<>>

\* ---- mount: the three effects of App.tsx 25-65 run once, in order ----
Mount ==
  /\ app = "unmounted"
  /\ modelInit' = "pending"
  /\ UNCHANGED <<env, video, heldFrame, selections, remote, ops, now, modelsRef, requestRef, rafCount, passes, loopError>>
  /\ IF isSupabaseConfigured
     THEN /\ load' = [pc |-> "reqGetAll", data |-> <<>>, error |-> FALSE]
          /\ isSyncing' = TRUE
          /\ learnedSamplesRef' = learnedSamples
          /\ UNCHANGED <<learnedSamples, effectPending, localStorage, rafPending, detections>>
          /\ app' = "mounted"
     ELSE LET localData == localStorage
              throws == JSONParseThrows(localData)
              data == IF localData # NoItem /\ ~throws THEN JSONParse(localData) ELSE <<>>
          IN /\ load' = [pc |-> "done", data |-> <<>>, error |-> throws]
             \* effect of lines 47-52 with the first render's learnedSamples
             /\ learnedSamplesRef' = learnedSamples
             /\ \E setItemOk \in BOOLEAN :
                  IF setItemOk
                  THEN /\ localStorage' = JSONStringify(learnedSamples)
                       /\ learnedSamples' = IF throws THEN learnedSamples ELSE data
                       /\ effectPending' = ~throws
                       /\ isSyncing' = FALSE
                       /\ app' = "mounted"
                       /\ UNCHANGED <<rafPending, detections>>
                  ELSE /\ UNCHANGED localStorage
                       /\ Cleanup("crashed")

\* a variant of Commit that hands the loop the list with its first element still missing
CommitTorn ==
  /\ app = "mounted"
  /\ effectPending
  /\ learnedSamplesRef' = IF learnedSamples = <<>> THEN <<>> ELSE Tail(learnedSamples)
  /\ effectPending' = FALSE
  /\ localStorage' = IF isSupabaseConfigured THEN localStorage ELSE JSONStringify(learnedSamples)
  /\ UNCHANGED <<env, video, heldFrame, selections, remote, load, ops, now, learnedSamples, isSyncing, detections, app, rafPending>>
  /\ UNCHANGED <<modelInit, modelsRef, requestRef, rafCount, passes, loopError>>

\* ---- render commit after a change of learnedSamples: effect of App.tsx 47-52 ----
Commit ==
  /\ app = "mounted"
  /\ effectPending
  /\ learnedSamplesRef' = learnedSamples
  /\ UNCHANGED <<env, video, heldFrame, selections, remote, load, ops, now>>
  /\ UNCHANGED <<modelInit, modelsRef, requestRef, rafCount, passes, loopError>>
  /\ \E setItemOk \in BOOLEAN :
       IF isSupabaseConfigured \/ setItemOk
       THEN /\ localStorage' = IF isSupabaseConfigured THEN localStorage
                                ELSE JSONStringify(learnedSamples)
            /\ effectPending' = FALSE
            /\ UNCHANGED <<learnedSamples, isSyncing, detections, app, rafPending>>
       ELSE /\ UNCHANGED localStorage
            /\ Cleanup("crashed")

\* ---- loadMemory with a backend: potholeService.getAll ----
\* the backend answers the select: rows newest first, or an error / exception,
\* which getAll turns into []
LoadServer ==
  /\ load.pc = "reqGetAll"
  /\ \/ \E rows \in OrderedByTimestampDesc(remote) :
          load' = [pc |-> "respGetAll", data |-> rows, error |-> FALSE]
     \/ load' = [pc |-> "respGetAll", data |-> <<>>, error |-> TRUE]
  /\ UNCHANGED <<env, video, heldFrame, selections, app, learnedSamples, learnedSamplesRef, effectPending, localStorage,
                 remote, isSyncing, ops, now, loopVars>>

\* a variant of LoadResolve without the finally of lines 40-42
LoadResolveNoFinally ==
  /\ load.pc = "respGetAll"
  /\ load' = [load EXCEPT !.pc = "done", !.data = <<>>]
  /\ learnedSamplesRef' = load.data
  /\ IF app = "mounted"
     THEN /\ learnedSamples' = load.data
          /\ effectPending' = TRUE
     ELSE UNCHANGED <<learnedSamples, effectPending>>
  /\ UNCHANGED <<env, video, heldFrame, selections, app, localStorage, remote, ops, now, loopVars, isSyncing>>

\* the await of App.tsx 31 resumes: lines 36-37 and the finally of 40-42
LoadResolve ==
  /\ load.pc = "respGetAll"
  /\ load' = [load EXCEPT !.pc = "done", !.data = <<>>]
  /\ learnedSamplesRef' = load.data
  /\ IF app = "mounted"
     THEN /\ learnedSamples' = load.data
          /\ effectPending' = TRUE
          /\ isSyncing' = FALSE
     ELSE UNCHANGED <<learnedSamples, effectPending, isSyncing>>
  /\ UNCHANGED <<env, video, heldFrame, selections, app, localStorage, remote, ops, now, loopVars>>

\* ---- handleAreaSelected, App.tsx 119-236 ----

\* imageEmbedder.embed(canvas).embeddings: no embedding, or one
EmbedResults == {<<>>} \cup {<<v>> : v \in Embeddings}
TrainEmbedResults == {<<>>} \cup {<<v>> : v \in TrainedEmbeddings}

\* Array.from(embeddingResult.embeddings[0].floatEmbedding), lines 169 and 197
FloatEmbedding(embeddings) == IF Len(embeddings) > 0 THEN embeddings[1] ELSE NoVector

\* a variant of TrainError without the checks of lines 166-168 and 194-196
TrainErrorUnchecked(sourceOk, embedThrows, embeddings) ==
  IF ~sourceOk THEN "source"
  ELSE IF embedThrows THEN "embedding"
  ELSE "none"

\* what the try block throws before the sample is built: the image fails to load
\* (137-140) or the video element is missing (172-174), embed itself throws, or
\* there is no embedding (166-168, 194-196)
TrainError(sourceOk, embedThrows, embeddings) ==
  IF ~sourceOk THEN "source"
  ELSE IF embedThrows \/ Len(embeddings) = 0 THEN "embedding"
  ELSE "none"

\* lines 200-205; t is the reading of Date.now()
NewSample(t, vector, thumb) ==
  [id |-> t, embedding |-> vector, thumbnail |-> thumb, timestamp |-> t]

\* Date.now(): the clock never goes back; now is the last reading
ClockReadings == {t \in 1..MaxClock : t \in {now, now + 1}}

\* a variant of AfterRemoteCall without the inner try/catch: the error reaches the
\* outer catch
AfterRemoteCallUncaught(resp) == IF resp = "error" THEN "throw" ELSE "continue"

\* lines 208-212 and 242-246: the inner try/catch logs a failed remote call and goes on
AfterRemoteCall(resp) == "continue"

\* the catch of 230-232 and the finally of 233-235
FailTraining(i, err) ==
  /\ ops' = [ops EXCEPT ![i].kind = "insert", ![i].pc = "failed", ![i].err = err,
                        ![i].resp = "none"]
  /\ isSyncing' = IF app = "mounted" THEN FALSE ELSE isSyncing
  /\ UNCHANGED <<learnedSamples, effectPending, localStorage, app, rafPending, detections>>

\* lines 215-235: the updater of 215-219 (the new list, written to the mirror), the
\* beep of 223-229, whose AudioContext constructor may throw into the catch of 230,
\* and the finally.  A setItem that throws inside the updater is an error of the
\* render: the root is unmounted.
FinishInsert(i, newSample, audioOk, setItemOk) ==
  /\ ops' = [ops EXCEPT ![i].kind = "insert", ![i].sample = newSample, ![i].resp = "none",
                        ![i].pc = IF audioOk THEN "done" ELSE "failed",
                        ![i].err = IF audioOk THEN "none" ELSE "audio"]
  /\ IF app = "mounted"
     THEN IF setItemOk
          THEN /\ learnedSamples' = InsertUpdater(learnedSamples, newSample).updated
               /\ localStorage' = InsertUpdater(learnedSamples, newSample).stored
               /\ effectPending' = TRUE
               /\ isSyncing' = FALSE
               /\ UNCHANGED <<app, rafPending, detections>>
          ELSE /\ Cleanup("crashed")
               /\ UNCHANGED localStorage
     ELSE UNCHANGED <<learnedSamples, localStorage, effectPending, isSyncing, app, rafPending,
                      detections>>

\* lines 132-213: from the frame source to the remote call
TrainBody(i, sourceOk, embedThrows, embeddings, t, audioOk, setItemOk) ==
  LET err == TrainError(sourceOk, embedThrows, embeddings)
      newSample == NewSample(t, FloatEmbedding(embeddings), "jpeg")
  IN IF err # "none"
     THEN /\ FailTraining(i, err)
          /\ UNCHANGED now
     ELSE /\ now' = t
          /\ IF isSupabaseConfigured
             THEN /\ ops' = [ops EXCEPT ![i].kind = "insert", ![i].pc = "reqInsert",
                                         ![i].sample = newSample]
                  /\ isSyncing' = IF app = "mounted" THEN TRUE ELSE isSyncing
                  /\ UNCHANGED <<learnedSamples, effectPending, localStorage, app, rafPending,
                                 detections>>
             ELSE FinishInsert(i, newSample, audioOk, setItemOk)

NextSlot(i) == ops[i].pc = "idle" /\ \A j \in Ops : j < i => ops[j].pc # "idle"

\* CameraFeed.tsx 132-137, handleEnd: the rectangle is passed on if w > 0.01 && h > 0.01
handleEnd(rect) == rect.w > 10 /\ rect.h > 10

\* the operator selects an area (CameraFeed handleEnd, then handleAreaSelected), on the
\* live video or on an uploaded image
TrainStartOn(i, rects, imageSizes) ==
  /\ app = "mounted"
  /\ modelsRef
  /\ NextSlot(i)
  /\ \E rect \in rects, uploadedImage \in BOOLEAN, natural \in imageSizes :
       /\ handleEnd(rect)
       /\ selections' = [selections EXCEPT ![i] = Selection(rect, IF uploadedImage THEN natural ELSE video)]
       /\ IF uploadedImage
          THEN /\ ops' = [ops EXCEPT ![i].kind = "insert", ![i].pc = "awaitImage"]
               /\ isSyncing' = TRUE
               /\ UNCHANGED <<learnedSamples, effectPending, localStorage, app, rafPending, now,
                              detections>>
          ELSE \E videoFound \in BOOLEAN, embedThrows \in BOOLEAN, embeddings \in TrainEmbedResults,
                  t \in ClockReadings, audioOk \in BOOLEAN, setItemOk \in BOOLEAN :
                 TrainBody(i, videoFound, embedThrows, embeddings, t, audioOk, setItemOk)
  /\ UNCHANGED <<env, video, heldFrame, learnedSamplesRef, remote, load>>
  /\ UNCHANGED <<modelInit, modelsRef, requestRef, rafCount, passes, loopError>>

TrainStart(i) == TrainStartOn(i, {HalfFrame}, {IdealResolution})

\* lines 120-124: without an embedder the handler returns at once
TrainNoEmbedder ==
  /\ app = "mounted"
  /\ ~modelsRef
  /\ UNCHANGED vars

\* the await of 137-140 resumes: img.onload or img.onerror
ImageLoaded(i) ==
  /\ ops[i].pc = "awaitImage"
  /\ \E loaded \in BOOLEAN, embedThrows \in BOOLEAN, embeddings \in TrainEmbedResults,
        t \in ClockReadings, audioOk \in BOOLEAN, setItemOk \in BOOLEAN :
       TrainBody(i, loaded, embedThrows, embeddings, t, audioOk, setItemOk)
  /\ UNCHANGED <<env, video, heldFrame, selections, learnedSamplesRef, remote, load>>
  /\ UNCHANGED <<modelInit, modelsRef, requestRef, rafCount, passes, loopError>>

\* potholeService.insert at the backend: the row is stored, or an error comes back
InsertServer(i) ==
  /\ ops[i].pc = "reqInsert"
  /\ \/ /\ remote' = remote \cup {ops[i].sample}
        /\ ops' = [ops EXCEPT ![i].pc = "respInsert", ![i].resp = "ok"]
     \/ /\ UNCHANGED remote
        /\ ops' = [ops EXCEPT ![i].pc = "respInsert", ![i].resp = "error"]
  /\ UNCHANGED <<env, video, heldFrame, selections, app, learnedSamples, learnedSamplesRef, effectPending, localStorage,
                 isSyncing, load, now, loopVars>>

\* the await of line 209 resumes
InsertResolve(i) ==
  /\ ops[i].pc = "respInsert"
  /\ IF AfterRemoteCall(ops[i].resp) = "continue"
     THEN \E audioOk \in BOOLEAN, setItemOk \in BOOLEAN :
            FinishInsert(i, ops[i].sample, audioOk, setItemOk)
     ELSE FailTraining(i, "remote")
  /\ UNCHANGED <<env, video, heldFrame, selections, learnedSamplesRef, remote, load, now>>
  /\ UNCHANGED <<modelInit, modelsRef, requestRef, rafCount, passes, loopError>>

\* ---- handleDeleteSample, App.tsx 238-255 ----

\* lines 248-254: the updater (the filtered list, written to the mirror), the finally
FinishDelete(i, id, setItemOk) ==
  /\ IF AfterRemoteCall(ops[i].resp) = "continue"
     THEN /\ ops' = [ops EXCEPT ![i].kind = "delete", ![i].id = id, ![i].pc = "done",
                                ![i].resp = "none"]
          /\ IF app = "mounted"
             THEN IF setItemOk
                  THEN /\ learnedSamples' = DeleteUpdater(learnedSamples, id).updated
                       /\ localStorage' = DeleteUpdater(learnedSamples, id).stored
                       /\ effectPending' = TRUE
                       /\ isSyncing' = FALSE
                       /\ UNCHANGED <<app, rafPending, detections>>
                  ELSE /\ Cleanup("crashed")
                       /\ UNCHANGED localStorage
             ELSE UNCHANGED <<learnedSamples, localStorage, effectPending, isSyncing, app,
                              rafPending, detections>>
     ELSE /\ ops' = [ops EXCEPT ![i].kind = "delete", ![i].id = id, ![i].pc = "failed",
                                ![i].err = "remote", ![i].resp = "none"]
          /\ isSyncing' = IF app = "mounted" THEN FALSE ELSE isSyncing
          /\ UNCHANGED <<learnedSamples, effectPending, localStorage, app, rafPending, detections>>

\* the operator presses the delete button of a listed sample (App.tsx 381); the list
\* is under the loading overlay (316-324) until the model callback has run
DeleteStart(i) ==
  /\ app = "mounted"
  /\ modelsRef
  /\ NextSlot(i)
  /\ \E id \in Ids(learnedSamples) \cup Ids(learnedSamplesRef) :
       IF isSupabaseConfigured
       THEN /\ ops' = [ops EXCEPT ![i].kind = "delete", ![i].id = id, ![i].pc = "reqDelete"]
            /\ isSyncing' = TRUE
            /\ UNCHANGED <<learnedSamples, effectPending, localStorage, app, rafPending, detections>>
       ELSE \E setItemOk \in BOOLEAN : FinishDelete(i, id, setItemOk)
  /\ UNCHANGED <<env, video, heldFrame, selections, learnedSamplesRef, remote, load, now>>
  /\ UNCHANGED <<modelInit, modelsRef, requestRef, rafCount, passes, loopError>>

\* potholeService.delete at the backend: the rows with that id go, or an error comes back
DeleteServer(i) ==
  /\ ops[i].pc = "reqDelete"
  /\ \/ /\ remote' = {r \in remote : r.id # ops[i].id}
        /\ ops' = [ops EXCEPT ![i].pc = "respDelete", ![i].resp = "ok"]
     \/ /\ UNCHANGED remote
        /\ ops' = [ops EXCEPT ![i].pc = "respDelete", ![i].resp = "error"]
  /\ UNCHANGED <<env, video, heldFrame, selections, app, learnedSamples, learnedSamplesRef, effectPending, localStorage,
                 isSyncing, load, now, loopVars>>

\* the await of line 243 resumes
DeleteResolve(i) ==
  /\ ops[i].pc = "respDelete"
  /\ \E setItemOk \in BOOLEAN : FinishDelete(i, ops[i].id, setItemOk)
  /\ UNCHANGED <<env, video, heldFrame, selections, learnedSamplesRef, remote, load, now>>
  /\ UNCHANGED <<modelInit, modelsRef, requestRef, rafCount, passes, loopError>>

\* ---- localModelService.ts ----

\* dot product and the two squared magnitudes of lines 69-76
RECURSIVE DotFrom(_, _, _)
DotFrom(a, b, i) == IF i > Len(a) THEN 0 ELSE a[i] * b[i] + DotFrom(a, b, i + 1)

\* a variant of computeCosineSimilarity without the test of the denominator
CosineUnguarded(a, b) ==
  IF Len(a) # Len(b) THEN [n |-> 0, d |-> 1]
  ELSE [n |-> DotFrom(a, b, 1), d |-> DotFrom(a, a, 1) * DotFrom(b, b, 1)]

\* a variant of computeCosineSimilarity that divides by the magnitude of a twice
CosineByFirstMagnitude(a, b) ==
  IF Len(a) # Len(b) THEN [n |-> 0, d |-> 1]
  ELSE IF DotFrom(a, a, 1) * DotFrom(b, b, 1) = 0 THEN [n |-> 0, d |-> 1]
  ELSE [n |-> DotFrom(a, b, 1), d |-> DotFrom(a, a, 1) * DotFrom(a, a, 1)]

\* computeCosineSimilarity(a, b), lines 67-79.  The result dotProduct / (sqrt(mA) * sqrt(mB))
\* is kept exact as the pair [n, d] standing for n / sqrt(d); 0 is [n |-> 0, d |-> 1].
Zero == [n |-> 0, d |-> 1]
computeCosineSimilarity(a, b) ==
  IF Len(a) # Len(b) THEN Zero
  ELSE LET dotProduct == DotFrom(a, b, 1)
           mA == DotFrom(a, a, 1)
           mB == DotFrom(b, b, 1)
       IN IF mA * mB = 0 THEN Zero ELSE [n |-> dotProduct, d |-> mA * mB]

\* x > y for x = [n, d], y = [n, d]
ScoreGT(x, y) ==
  IF x.n > 0 /\ y.n > 0 THEN x.n * x.n * y.d > y.n * y.n * x.d
  ELSE IF x.n <= 0 /\ y.n <= 0 THEN x.n * x.n * y.d < y.n * y.n * x.d
  ELSE x.n > y.n

\* a variant of AboveThreshold that also promotes at 0.48
AtOrAboveThreshold(score) == score.n > 0 /\ score.n * score.n * 625 >= 144 * score.d

\* score > 0.48, line 101 of App.tsx: n / sqrt(d) > 12 / 25
AboveThreshold(score) == score.n > 0 /\ score.n * score.n * 625 > 144 * score.d

\* the frames the detector may report on: a raw detection is a category and a pixel box
RawDetections ==
  {[categoryName |-> <<"c", "a", "r">>, score |-> 80,
    boundingBox |-> [originX |-> 320, originY |-> 180, width |-> 640, height |-> 360]],
   [categoryName |-> <<"d", "o", "g">>, score |-> 40,
    boundingBox |-> [originX |-> 100, originY |-> 100, width |-> 8, height |-> 8]]}

\* rawCategory.includes(word): word occurs in rawCategory as a run of characters
Includes(rawCategory, word) ==
  \E k \in 0..(Len(rawCategory) - Len(word)) : SubSeq(rawCategory, k + 1, k + Len(word)) = word

\* categoryName.toLowerCase(), line 85: each upper-case letter becomes its lower-case
\* letter, every other character stays
UpperCase == <<"A", "B", "C", "D", "E", "F", "G", "H", "I", "J", "K", "L", "M",
               "N", "O", "P", "Q", "R", "S", "T", "U", "V", "W", "X", "Y", "Z">>
LowerCase == <<"a", "b", "c", "d", "e", "f", "g", "h", "i", "j", "k", "l", "m",
               "n", "o", "p", "q", "r", "s", "t", "u", "v", "w", "x", "y", "z">>
ToLowerCase(name) ==
  [k \in 1..Len(name) |->
     IF \E i \in 1..Len(UpperCase) : UpperCase[i] = name[k]
     THEN LowerCase[CHOOSE i \in 1..Len(UpperCase) : UpperCase[i] = name[k]]
     ELSE name[k]]

\* a variant of Classify that tests for person first
ClassifyPersonFirst(rawCategory) ==
  IF Includes(rawCategory, <<"p", "e", "r", "s", "o", "n">>)
  THEN [type |-> "PEDESTRIAN", label |-> "PEDESTRIAN"]
  ELSE IF \/ Includes(rawCategory, <<"c", "a", "r">>)
          \/ Includes(rawCategory, <<"t", "r", "u", "c", "k">>)
          \/ Includes(rawCategory, <<"b", "u", "s">>)
          \/ Includes(rawCategory, <<"m", "o", "t", "o", "r", "c", "y", "c", "l", "e">>)
       THEN [type |-> "VEHICLE", label |-> "VEHICLE"]
       ELSE [type |-> "COLLISION_RISK", label |-> "OBJECT"]

\* the rule table of lines 88-102; a category name is its sequence of characters
Classify(rawCategory) ==
  IF \/ Includes(rawCategory, <<"c", "a", "r">>)
     \/ Includes(rawCategory, <<"t", "r", "u", "c", "k">>)
     \/ Includes(rawCategory, <<"b", "u", "s">>)
     \/ Includes(rawCategory, <<"m", "o", "t", "o", "r", "c", "y", "c", "l", "e">>)
  THEN [type |-> "VEHICLE", label |-> "VEHICLE"]
  ELSE IF Includes(rawCategory, <<"p", "e", "r", "s", "o", "n">>)
       THEN [type |-> "PEDESTRIAN", label |-> "PEDESTRIAN"]
       ELSE [type |-> "COLLISION_RISK", label |-> "OBJECT"]

\* the numbers of lines 105-106 kept exactly, as fractions in lowest terms
RECURSIVE GCD(_, _)
GCD(m, n) == IF n = 0 THEN m ELSE GCD(n, m % n)
Rat(n, d) == [num |-> n \div GCD(n, d), den |-> d \div GCD(n, d)]
RatAdd(p, q) == Rat(p.num * q.den + q.num * p.den, p.den * q.den)
RatDiv(p, q) == Rat(p.num * q.den, p.den * q.num)
RatLE(p, q) == p.num * q.den <= q.num * p.den
MathMin(p, q) == IF RatLE(p, q) THEN p ELSE q
MathMax(p, q) == IF RatLE(p, q) THEN q ELSE p

\* a variant of estimatedDistance without the upper limit
estimatedDistanceNoCeiling(box) ==
  MathMax(Rat(1, 2), RatDiv(Rat(45, 100), RatAdd(Rat(box.width, 1280), Rat(1, 1000))))

\* lines 105-106: normWidth = box.width / 1280 and
\* Math.max(0.5, Math.min(30, 0.45 / (normWidth + 0.001)))
estimatedDistance(box) ==
  LET normWidth == Rat(box.width, 1280)
  IN MathMax(Rat(1, 2), MathMin(Rat(30, 1), RatDiv(Rat(45, 100), RatAdd(normWidth, Rat(1, 1000)))))

\* processDetections(results), lines 81-123: no results give no candidate; bbox is
\* [y_min, x_min, y_max, x_max], each a fraction [num, den] of 720 or 1280
NoResults == [defined |-> FALSE, detections |-> <<>>]
processDetections(results) ==
  IF ~results.defined THEN <<>>
  ELSE [k \in 1..Len(results.detections) |->
          LET det == results.detections[k]
              rawCategory == ToLowerCase(det.categoryName)
              box == det.boundingBox
          IN [type |-> Classify(rawCategory).type,
              label |-> Classify(rawCategory).label,
              confidence |-> det.score,
              bbox |-> <<[num |-> box.originY, den |-> 720],
                         [num |-> box.originX, den |-> 1280],
                         [num |-> box.originY + box.height, den |-> 720],
                         [num |-> box.originX + box.width, den |-> 1280]>>,
              distance |-> estimatedDistance(box)]]

\* ---- the frame loop, App.tsx 54-117 ----

\* the frame source of the loop
videoWidth == video.videoWidth
videoHeight == video.videoHeight

\* lines 84-90: the crop in source pixels is large enough, vw > 10 && vh > 10, with
\* vw = (x2 - x1) * videoWidth and vh = (y2 - y1) * videoHeight
LargeEnough(bbox) ==
  /\ (bbox[4].num - bbox[2].num) * videoWidth > 10 * bbox[4].den
  /\ (bbox[3].num - bbox[1].num) * videoHeight > 10 * bbox[3].den

\* a variant of BestFrom that stops after the first sample
BestFromFirstOnly(currentVector, currentLearned, k, bestScore) ==
  IF k > Len(currentLearned) THEN bestScore
  ELSE LET score == computeCosineSimilarity(currentVector, currentLearned[k].embedding)
       IN IF ScoreGT(score, bestScore) THEN score ELSE bestScore

\* lines 96-100: the best score over the samples, from 0
RECURSIVE BestFrom(_, _, _, _)
BestFrom(currentVector, currentLearned, k, bestScore) ==
  IF k > Len(currentLearned) THEN bestScore
  ELSE LET score == computeCosineSimilarity(currentVector, currentLearned[k].embedding)
       IN BestFrom(currentVector, currentLearned, k + 1,
                   IF ScoreGT(score, bestScore) THEN score ELSE bestScore)

\* the candidates on which imageEmbedder.embed is called, line 93
Embedded(rawCandidates, currentLearned) ==
  IF Len(currentLearned) > 0
  THEN {k \in 1..Len(rawCandidates) : LargeEnough(rawCandidates[k].bbox)}
  ELSE {}

\* lines 79-113: matchedDetections, given each candidate's embed result
RECURSIVE MatchFrom(_, _, _, _)
MatchFrom(rawCandidates, embeds, currentLearned, k) ==
  IF k > Len(rawCandidates) THEN <<>>
  ELSE LET det == rawCandidates[k]
           rest == MatchFrom(rawCandidates, embeds, currentLearned, k + 1)
           bestScore == BestFrom(FloatEmbedding(embeds[k].embeddings), currentLearned, 1, Zero)
       IN IF /\ k \in Embedded(rawCandidates, currentLearned)
             /\ Len(embeds[k].embeddings) > 0
             /\ AboveThreshold(bestScore)
          THEN <<[det EXCEPT !.type = "LEARNED", !.label = "TRAINED HAZARD",
                             !.confidence = bestScore] @@ [matchScore |-> bestScore]>> \o rest
          ELSE rest

\* what a call of the detector or the embedder inside animate does when it throws:
\* animate has no try/catch, so its promise rejects and line 116 is not reached
PassThrows(detectorThrows, rawCandidates, embeds, currentLearned) ==
  IF detectorThrows THEN "detector"
  ELSE IF \E k \in Embedded(rawCandidates, currentLearned) : embeds[k].throws THEN "embedder"
  ELSE "none"

\* animate(), lines 67-117
Animate(videoReady, detectorThrows, results, embeds) ==
  LET rawCandidates == processDetections(results)
      currentLearned == learnedSamplesRef
  IN /\ passes' = passes + 1
     /\ IF videoReady /\ PassThrows(detectorThrows, rawCandidates, embeds, currentLearned) # "none"
        THEN /\ loopError' = PassThrows(detectorThrows, rawCandidates, embeds, currentLearned)
             /\ rafPending' = 0
             /\ UNCHANGED <<detections, requestRef, rafCount>>
        ELSE /\ detections' = IF videoReady /\ app = "mounted"
                              THEN MatchFrom(rawCandidates, embeds, currentLearned, 1)
                              ELSE detections
             /\ rafCount' = rafCount + 1
             /\ requestRef' = rafCount + 1
             /\ rafPending' = rafCount + 1
             /\ UNCHANGED loopError

\* what one frame holds: whether the video has data, the detector's answer and, per
\* detection, what embed would do
MaxCands == 2
EmbedOutcomes == [throws : BOOLEAN, embeddings : EmbedResults]
Frame(videoReady, detectorThrows, defined, f) ==
  [videoReady |-> videoReady, detectorThrows |-> detectorThrows,
   results |-> IF defined THEN [defined |-> TRUE, detections |-> [k \in 1..Len(f) |-> f[k][1]]]
                          ELSE NoResults,
   embeds |-> [k \in 1..Len(f) |-> f[k][2]]]
\* the video has no data yet (readyState < 2)
IdleFrames == {Frame(FALSE, FALSE, FALSE, <<>>)}
Frames ==
  IdleFrames
  \cup {Frame(TRUE, TRUE, FALSE, <<>>), Frame(TRUE, FALSE, FALSE, <<>>)}
  \cup {Frame(TRUE, FALSE, TRUE, f) :
          f \in UNION {[1..n -> RawDetections \X EmbedOutcomes] : n \in 0..MaxCands}}

AnimateOn(frames) ==
  \E fr \in frames : Animate(fr.videoReady, fr.detectorThrows, fr.results, fr.embeds)

\* a variant of ModelInitResolveOn whose callback may run again after it has run
ModelInitResolveRepeated(frames) ==
  /\ modelInit \in {"pending", "resolved"}
  /\ modelInit' = "resolved"
  /\ modelsRef' = TRUE
  /\ AnimateOn(frames)
  /\ UNCHANGED <<env, video, heldFrame, selections, app, storeVars>>

\* initLocalModel() resolves: the callback of lines 59-63
ModelInitResolveOn(frames) ==
  /\ modelInit = "pending"
  /\ modelInit' = "resolved"
  /\ modelsRef' = TRUE
  /\ AnimateOn(frames)
  /\ UNCHANGED <<env, video, heldFrame, selections, app, storeVars>>

ModelInitResolve == ModelInitResolveOn(Frames)

\* initLocalModel() rejects (localModelService.ts 61-64): no callback runs
ModelInitReject ==
  /\ modelInit = "pending"
  /\ modelInit' = "rejected"
  /\ UNCHANGED <<env, video, heldFrame, selections, app, storeVars, modelsRef, requestRef, rafPending, rafCount, passes,
                 loopError, detections>>

\* the browser runs the pending requestAnimationFrame callback
AnimateFrameOn(frames) ==
  /\ rafPending # 0
  /\ passes < MaxFrames
  /\ AnimateOn(frames)
  /\ UNCHANGED <<env, video, heldFrame, selections, app, storeVars, modelInit, modelsRef>>

AnimateFrame == AnimateFrameOn(Frames)

\* the root is unmounted: cleanup of line 64
Teardown ==
  /\ app = "mounted"
  /\ Cleanup("torndown")
  /\ UNCHANGED <<env, video, heldFrame, selections, learnedSamplesRef, localStorage, remote, load, ops, now>>
  /\ UNCHANGED <<modelInit, modelsRef, requestRef, rafCount, passes, loopError>>

\* ---- the store: every store operation, the model loaded before the video has data ----
ModelInitResolveIdle == ModelInitResolveOn(IdleFrames)

NextStore ==
  \/ Mount
  \/ Commit
  \/ LoadServer
  \/ LoadResolve
  \/ \E i \in Ops : TrainStart(i)
  \/ TrainNoEmbedder
  \/ \E i \in Ops : ImageLoaded(i)
  \/ \E i \in Ops : InsertServer(i)
  \/ \E i \in Ops : InsertResolve(i)
  \/ \E i \in Ops : DeleteStart(i)
  \/ \E i \in Ops : DeleteServer(i)
  \/ \E i \in Ops : DeleteResolve(i)
  \/ ModelInitResolveIdle
  \/ ModelInitReject

SpecStore == Init /\ [][NextStore]_vars

\* ---- training on rectangles of several sizes, on the live video and on an uploaded
\* image ----
TrainSelected(i) == TrainStartOn(i, SelectedRects, {UploadedImageSize})

NextTrain ==
  \/ Mount
  \/ Commit
  \/ LoadServer
  \/ LoadResolve
  \/ \E i \in Ops : TrainSelected(i)
  \/ \E i \in Ops : ImageLoaded(i)
  \/ \E i \in Ops : InsertServer(i)
  \/ \E i \in Ops : InsertResolve(i)
  \/ ModelInitResolveIdle

SpecTrain == Init /\ [][NextTrain]_vars

\* the store with the scheduling the load relies on: the backend answers the select
\* (with rows or with an error) and the continuation of the await then runs
SpecStoreFair == SpecStore /\ WF_vars(LoadServer) /\ WF_vars(LoadResolve)

\* ---- the frame loop: startup load, model initialisation, frames, teardown ----
NextLoop ==
  \/ Mount
  \/ Commit
  \/ LoadServer
  \/ LoadResolve
  \/ ModelInitResolve
  \/ ModelInitReject
  \/ AnimateFrame
  \/ Teardown

SpecLoop == Init /\ [][NextLoop]_vars

\* ---- store operations overlapping matching passes: the frames hold one candidate
\* that is large enough and on which the detector and the embedder do not throw ----
ReadyFrames ==
  {fr \in Frames : /\ fr.videoReady
                   /\ fr.results.defined
                   /\ Len(fr.embeds) = 1
                   /\ ~fr.embeds[1].throws
                   /\ LargeEnough(processDetections(fr.results)[1].bbox)}

ModelInitResolveReady == ModelInitResolveOn(ReadyFrames)
AnimateFrameReady == AnimateFrameOn(ReadyFrames)

NextOverlap ==
  \/ Mount
  \/ Commit
  \/ LoadServer
  \/ LoadResolve
  \/ \E i \in Ops : TrainStart(i)
  \/ \E i \in Ops : ImageLoaded(i)
  \/ \E i \in Ops : InsertServer(i)
  \/ \E i \in Ops : InsertResolve(i)
  \/ \E i \in Ops : DeleteStart(i)
  \/ \E i \in Ops : DeleteServer(i)
  \/ \E i \in Ops : DeleteResolve(i)
  \/ ModelInitResolveReady
  \/ AnimateFrameReady

SpecOverlap == Init /\ [][NextOverlap]_vars

\* ---- one matching pass on a held frame: the matcher of lines 75-114 on every frame
\* and store within the bounds ----
MaxStored == 2
\* embeddings of norm 5: a, one at cosine 12/25 = 0.48 to a, one at 24/25 to a, and -a
MatchVectors == {<<3, 4, 0>>, <<4, 0, 3>>, <<4, 3, 0>>, <<-3, -4, 0>>}
MatchSample(k, v) == [id |-> k, embedding |-> v, thumbnail |-> "jpeg", timestamp |-> k]
\* stores of up to MaxStored samples, newest first
MatchStores ==
  UNION {{[k \in 1..n |-> MatchSample(n - k + 1, f[k])] : f \in [1..n -> MatchVectors]} :
           n \in 0..MaxStored}
\* embed answers with no embedding or with one; detectForVideo answers with no result
\* or with up to MaxCands detections
MatchOutcomes == [throws : {FALSE}, embeddings : {<<>>} \cup {<<v>> : v \in MatchVectors}]
MatchFrames ==
  {Frame(TRUE, FALSE, FALSE, <<>>)}
  \cup {Frame(TRUE, FALSE, TRUE, f) :
          f \in UNION {[1..n -> RawDetections \X MatchOutcomes] : n \in 0..MaxCands}}

\* the running application between two passes: mounted, models loaded, the first pass
\* done and the next frame requested; the store holds what was trained so far
InitPass(videos, stores, frames) ==
  /\ env \in Environments
  /\ video \in videos
  /\ selections = [i \in Ops |-> NoSelection]
  /\ app = "mounted"
  /\ learnedSamplesRef \in stores
  /\ learnedSamples = learnedSamplesRef
  /\ effectPending = FALSE
  /\ localStorage = JSONStringify(learnedSamples)
  /\ remote = IF isSupabaseConfigured THEN Range(learnedSamples) ELSE {}
  /\ isSyncing = FALSE
  /\ load = [pc |-> "done", data |-> <<>>, error |-> FALSE]
  /\ ops = [i \in Ops |-> IdleOp]
  /\ now = MaxStored
  /\ modelInit = "resolved"
  /\ modelsRef = TRUE
  /\ requestRef = 1
  /\ rafPending = 1
  /\ rafCount = 1
  /\ passes = 1
  /\ loopError = "none"
  /\ detections = <<>>
  /\ heldFrame \in frames[video]

InitMatch == InitPass({IdealResolution}, MatchStores, [v \in {IdealResolution} |-> MatchFrames])

\* the pending frame callback runs animate on the held frame
PassOnHeldFrame ==
  /\ rafPending # 0
  /\ passes < MaxFrames
  /\ Animate(heldFrame.videoReady, heldFrame.detectorThrows, heldFrame.results, heldFrame.embeds)
  /\ UNCHANGED <<env, video, heldFrame, selections, app, storeVars, modelInit, modelsRef>>

NextMatch == PassOnHeldFrame

SpecMatch == InitMatch /\ [][NextMatch]_vars

\* ---- one matching pass that compares one query with one stored vector:
\* computeCosineSimilarity on every pair of vectors within the bounds, the empty
\* vector, zero vectors and vectors of different lengths among them ----
MaxDim == 2
CosineVectors == UNION {[1..n -> {-1, 0, 1}] : n \in 0..MaxDim}
CosineStores == {<<MatchSample(1, b)>> : b \in CosineVectors}
LargeDetection == CHOOSE r \in RawDetections : r.boundingBox.width > 10 /\ r.boundingBox.height > 10
CosineFrames ==
  {Frame(TRUE, FALSE, TRUE, <<<<LargeDetection, [throws |-> FALSE, embeddings |-> <<a>>]>>>>) :
     a \in CosineVectors}

InitCosine == InitPass({IdealResolution}, CosineStores, [v \in {IdealResolution} |-> CosineFrames])

SpecCosine == InitCosine /\ [][NextMatch]_vars

\* ---- one pass on a frame whose detections carry every category name of a set:
\* names of the detector's label list in the cases of the rule table, in mixed
\* case, and names that contain two of the words ----
CategoryNames ==
  {<<"c", "a", "r">>,
   <<"T", "r", "u", "c", "k">>,
   <<"m", "i", "n", "i", "b", "u", "s">>,
   <<"M", "O", "T", "O", "R", "C", "Y", "C", "L", "E">>,
   <<"P", "e", "r", "s", "o", "n">>,
   <<"P", "e", "r", "s", "o", "n", " ", "C", "a", "r">>,
   <<"d", "o", "g">>,
   <<"b", "i", "c", "y", "c", "l", "e">>,
   <<>>}
ClassifyFrames ==
  {Frame(TRUE, FALSE, TRUE, f) :
     f \in UNION {[1..n -> {[LargeDetection EXCEPT !.categoryName = c] : c \in CategoryNames}
                            \X {[throws |-> FALSE, embeddings |-> <<>>]}] : n \in 1..MaxCands}}

InitClassify == InitPass({IdealResolution}, {<<>>}, [v \in {IdealResolution} |-> ClassifyFrames])

SpecClassify == InitClassify /\ [][NextMatch]_vars

\* ---- one pass on a frame of any resolution whose detections are boxes inside the
\* frame: widths from 0 to the whole frame, on either side of the two limits of the
\* distance (17.92 and 1150.72 pixels) and of the 10 pixels of the crop ----
BoxesIn(v) ==
  {box \in [originX : {0, 320}, originY : {0}, width : {0, 8, 17, 18, 640, 1150, 1151, v.videoWidth},
            height : {8, 360, v.videoHeight}] :
     /\ box.originX + box.width <= v.videoWidth
     /\ box.originY + box.height <= v.videoHeight}
BoxFramesIn(v) ==
  {Frame(TRUE, FALSE, TRUE, f) :
     f \in UNION {[1..n -> {[LargeDetection EXCEPT !.boundingBox = box] : box \in BoxesIn(v)}
                            \X {[throws |-> FALSE, embeddings |-> <<<<1, 0>>>>]}] : n \in 1..MaxCands}}

InitBoxes == InitPass(Resolutions, {<<OldSample>>}, [v \in Resolutions |-> BoxFramesIn(v)])

SpecBoxes == InitBoxes /\ [][NextMatch]_vars

\* ---- everything ----
Next == NextStore \/ NextLoop \/ NextOverlap \/ NextTrain

Spec == Init /\ [][Next]_vars

\* ======================= properties =======================

Terminal == {"done", "failed"}
RemotePhases == {"reqInsert", "respInsert", "reqDelete", "respDelete"}
InFlightPhases == RemotePhases \cup {"awaitImage"}

\* the samples of the mirror
MirrorSamples == IF localStorage.kind = "json" THEN Range(JSONParse(localStorage)) ELSE {}

\* this step completes request i with its updater applied to a mounted component
Applied(i) ==
  /\ ops[i].pc \notin Terminal
  /\ ops'[i].pc \in Terminal
  /\ ops'[i].err \in {"none", "audio"}
  /\ app = "mounted"
  /\ app' = "mounted"

\* C1: a sample that an insert has placed in the snapshot stays in the snapshot in
\* every later state of the mounted component, until a delete is requested with its id.
C1_InsertedSampleStays ==
  [][\A i \in Ops :
       (/\ ops[i].kind = "insert"
        /\ ops[i].pc \in Terminal
        /\ ops[i].sample \in Range(learnedSamples)
        /\ app' = "mounted"
        /\ \A j \in Ops : ~(ops'[j].kind = "delete" /\ ops'[j].id = ops[i].sample.id))
       => ops[i].sample \in Range(learnedSamples')]_vars

\* C2: at most one store mutation is in flight: while a request has started and not
\* completed, no other request is in its remote call.
C2_OneMutationInFlight ==
  \A i, j \in Ops :
    (i # j /\ ops[i].pc \in InFlightPhases) => ops[j].pc \notin RemotePhases

\* C3: after every completed insert or delete, with or without a backend, the list
\* stored in the mirror is the snapshot, element for element and in the same order.
C3_MirrorEqualsSnapshot ==
  [][\A i \in Ops : Applied(i) => localStorage' = JSONStringify(learnedSamples')]_vars

\* an insert and a delete have completed, the snapshot is not empty, and the mirror
\* holds the snapshot
C3_Witness ==
  /\ app = "mounted"
  /\ \E i, j \in Ops :
       /\ ops[i].kind = "insert" /\ ops[i].pc = "done"
       /\ ops[j].kind = "delete" /\ ops[j].pc = "done"
  /\ learnedSamples # <<>>
  /\ localStorage = JSONStringify(learnedSamples)

\* C4: with a backend configured, when the remote read of the startup load fails, the
\* snapshot after the load is the list last written to the mirror.
C4_FailedReadLoadsMirror ==
  [][(/\ load.pc = "respGetAll"
      /\ load.error
      /\ load'.pc = "done"
      /\ app = "mounted"
      /\ localStorage.kind = "json")
     => learnedSamples' = JSONParse(localStorage)]_vars

\* C5: with neither SUPABASE_URL nor SUPABASE_ANON_KEY in the environment the store is
\* local-only: isSupabaseConfigured is false and no remote call is ever in flight.
C5_NoConfigurationIsLocalOnly ==
  (env.url = Absent /\ env.key = Absent)
  => /\ ~isSupabaseConfigured
     /\ load.pc \notin {"reqGetAll", "respGetAll"}
     /\ \A i \in Ops : ops[i].pc \notin RemotePhases

Complete(s) ==
  /\ s.id >= 0
  /\ Len(s.embedding) > 0
  /\ s.thumbnail # ""
  /\ s.timestamp >= 0

C7_TrainingAtomic ==
  /\ [](/\ \A s \in Range(learnedSamples) \cup MirrorSamples \cup remote : Complete(s)
        /\ \A i \in Ops : (ops[i].pc \in {"reqInsert", "respInsert"} => Complete(ops[i].sample)))
  /\ [][\A i \in Ops :
          (/\ ops[i].pc \notin Terminal
           /\ ops'[i].pc = "failed"
           /\ ops'[i].err \in {"embedding", "source"})
          => /\ learnedSamples' = learnedSamples
             /\ localStorage' = localStorage
             /\ remote' = remote]_vars

\* one training has failed for want of an embedding, another for want of a frame source
C7_Witness ==
  /\ app = "mounted"
  /\ \E i, j \in Ops :
       /\ ops[i].pc = "failed" /\ ops[i].err = "embedding"
       /\ ops[j].pc = "failed" /\ ops[j].err = "source"

\* C8: a failure of the detector call on a frame does not end the frame loop.
C8_DetectorFailureKeepsLoop == loopError # "detector"

\* C9: a failure of the embedder on one candidate does not end the pass or the loop.
C9_EmbedderFailureKeepsLoop == loopError # "embedder"

\* C10: after teardown no pass is pending and none is executed, whether teardown
\* comes before or after initLocalModel has resolved.
C10_NoPassAfterTeardown ==
  /\ [](app = "torndown" => rafPending = 0)
  /\ [][app = "torndown" => passes' = passes]_vars

\* C11: at most one matching pass is in flight.  A pass is one step (animate has no
\* await), so it has published its list when it requests the next frame; the first pass
\* is started by the model callback with no frame pending, every later pass runs the one
\* pending frame callback, which is the last one requested, and a pass requests at most
\* one frame.
C11_OnePassInFlight ==
  /\ [](rafPending \in {0, rafCount} /\ rafCount <= passes)
  /\ [][passes' # passes =>
          /\ passes' = passes + 1
          /\ IF passes = 0 THEN rafPending = 0 /\ modelInit = "pending"
                           ELSE rafPending # 0 /\ rafPending = rafCount
          /\ rafCount' \in {rafCount, rafCount + 1}
          /\ rafPending' \in {0, rafCount'}]_vars

\* two passes have run in a mounted component, the second has published a promoted
\* detection and requested the third
C11_Witness ==
  /\ app = "mounted"
  /\ passes = 2
  /\ rafPending = 2
  /\ detections # <<>>

PassDone == passes > 1 /\ loopError = "none"
Candidates == processDetections(heldFrame.results)
\* the candidates that get a similarity at all: the store is not empty, the crop is
\* larger than 10 x 10 source pixels and the embedder returned an embedding
Scored == {k \in 1..Len(Candidates) :
             /\ learnedSamplesRef # <<>>
             /\ LargeEnough(Candidates[k].bbox)
             /\ heldFrame.embeds[k].embeddings # <<>>}
Similarities(k) ==
  {computeCosineSimilarity(heldFrame.embeds[k].embeddings[1], s.embedding) :
     s \in Range(learnedSamplesRef)}
ExceedsThreshold(k) ==
  \E sim \in Similarities(k) : sim.n > 0 /\ sim.n * sim.n * 625 > 144 * sim.d
InOrder(S) ==
  CHOOSE f \in [1..Cardinality(S) -> S] : \A i, j \in 1..Cardinality(S) : i < j => f[i] < f[j]

\* C13: after a pass the promoted detections are, in order, exactly the candidates
\* with a similarity to a stored sample strictly above 0.48 = 12/25; each has type
\* LEARNED, label 'TRAINED HAZARD', the candidate's box, and matchScore = confidence =
\* the greatest of its similarities.
C13_PromotedExactlyAboveThreshold ==
  PassDone =>
    LET promoted == InOrder({k \in Scored : ExceedsThreshold(k)})
    IN /\ Len(detections) = Len(promoted)
       /\ \A j \in 1..Len(promoted) :
            LET d == detections[j]
                k == promoted[j]
            IN /\ d.type = "LEARNED"
               /\ d.label = "TRAINED HAZARD"
               /\ d.bbox = Candidates[k].bbox
               /\ d.matchScore = d.confidence
               /\ d.matchScore \in Similarities(k)
               /\ \A sim \in Similarities(k) : ~ScoreGT(sim, d.matchScore)

\* a pass on two scored candidates: the best similarity of one is exactly 0.48 and
\* it is not promoted, the other is promoted
C13_Witness ==
  /\ PassDone
  /\ Len(detections) = 1
  /\ \E k \in Scored :
       /\ ~ExceedsThreshold(k)
       /\ \E sim \in Similarities(k) : sim.n > 0 /\ sim.n * sim.n * 625 = 144 * sim.d
  /\ \E k \in Scored : ExceedsThreshold(k)

\* C14: every candidate of the frame is in the published list; one that is not promoted
\* is there with the type and label of the rule table and without a matchScore.
C14_EveryCandidatePublished ==
  PassDone =>
    /\ Len(detections) = Len(Candidates)
    /\ \A k \in 1..Len(Candidates) :
         (k \notin Scored \/ ~ExceedsThreshold(k)) =>
           /\ detections[k].type = Candidates[k].type
           /\ detections[k].label = Candidates[k].label
           /\ "matchScore" \notin DOMAIN detections[k]

\* C15: when an insert is applied, the new sample is the first element of the snapshot
\* and the samples that were there follow it in their previous order.
C15_InsertAtFront ==
  [][\A i \in Ops :
       (Applied(i) /\ ops'[i].kind = "insert")
       => /\ Len(learnedSamples') = Len(learnedSamples) + 1
          /\ learnedSamples'[1] = ops'[i].sample
          /\ \A k \in 1..Len(learnedSamples) : learnedSamples'[k + 1] = learnedSamples[k]]_vars

\* an insert has completed on its success path and its sample heads a snapshot of
\* at least two samples
C15_Witness ==
  /\ app = "mounted"
  /\ Len(learnedSamples) >= 2
  /\ \E i \in Ops :
       /\ ops[i].kind = "insert" /\ ops[i].pc = "done"
       /\ learnedSamples[1] = ops[i].sample

\* C16: when a delete is applied, the samples with the given id are gone from the
\* snapshot and every other sample stays, in the same relative order; for an id that is
\* not in the snapshot the snapshot is unchanged; and the request ends without an error.
C16_DeleteRemovesOnlyThatId ==
  [][\A i \in Ops :
       (Applied(i) /\ ops'[i].kind = "delete")
       => LET id == ops'[i].id
              kept == {k \in 1..Len(learnedSamples) : learnedSamples[k].id # id}
          IN /\ ops'[i].pc = "done"
             /\ ops'[i].err = "none"
             /\ Len(learnedSamples') = Cardinality(kept)
             /\ \A k \in kept :
                  learnedSamples'[Cardinality({m \in kept : m <= k})] = learnedSamples[k]
             /\ (id \notin Ids(learnedSamples) => learnedSamples' = learnedSamples)]_vars

\* a delete has completed after an insert: its id is gone from the snapshot and the
\* inserted sample, which has another id, is still there
C16_Witness ==
  /\ app = "mounted"
  /\ \E i, j \in Ops :
       /\ ops[i].kind = "delete" /\ ops[i].pc = "done"
       /\ ops[i].id \notin Ids(learnedSamples)
       /\ ops[j].kind = "insert" /\ ops[j].pc = "done"
       /\ j < i
       /\ ops[j].sample.id # ops[i].id
       /\ ops[j].sample \in Range(learnedSamples)

\* C17: the samples of the snapshot have pairwise distinct ids in every reachable state.
C17_DistinctIds ==
  \A a, b \in 1..Len(learnedSamples) : a # b => learnedSamples[a].id # learnedSamples[b].id

\* C18: a failed write of the mirror during an insert or a delete reaches the caller and
\* does not stop the frame loop: a request that completes on a mounted component ends
\* 'done' only with its effect written to the mirror, and it leaves the pending frame
\* callback pending.
C18_MirrorFailureReachesCaller ==
  [][\A i \in Ops :
       (ops[i].pc \notin Terminal /\ ops'[i].pc \in Terminal /\ app = "mounted")
       => /\ rafPending' = rafPending
          /\ (ops'[i].pc = "done" /\ ops'[i].kind = "insert")
               => (localStorage'.kind = "json"
                   /\ ops'[i].sample \in Range(JSONParse(localStorage')))
          /\ (ops'[i].pc = "done" /\ ops'[i].kind = "delete")
               => (localStorage'.kind = "json"
                   /\ ops'[i].id \notin Ids(JSONParse(localStorage')))]_vars

\* C19: the startup load terminates with the store usable.  Once started, loadMemory
\* finishes; the step that finishes it on a mounted component lowers the syncing flag,
\* and leaves the snapshot empty when the source failed (remote error, unparsable local
\* text) or held nothing (no local item).
C19_LoadTerminatesUsable ==
  /\ [][(load.pc # "done" /\ load'.pc = "done" /\ app' = "mounted")
         => /\ isSyncing' = FALSE
            /\ (load'.error => learnedSamples' = <<>>)
            /\ (~isSupabaseConfigured /\ localStorage \in {NoItem, Garbage})
                 => learnedSamples' = <<>>]_vars
  /\ (load.pc = "reqGetAll") ~> (load.pc = "done")

\* the load has finished after a failed remote read, although a training had already
\* raised the syncing flag and put a sample in the snapshot
C19_Witness ==
  /\ app = "mounted"
  /\ load.pc = "done"
  /\ load.error
  /\ ~isSyncing
  /\ learnedSamples = <<>>
  /\ isSupabaseConfigured
  /\ \A j \in Ops : ops[j].kind # "delete"
  /\ \E i \in Ops : ops[i].kind = "insert" /\ ops[i].pc = "done"

\* ---- the best score of a query against the store ----
SimilaritiesTo(v) ==
  {computeCosineSimilarity(v, learnedSamplesRef[k].embedding) : k \in 1..Len(learnedSamplesRef)}
\* best is an element of S that no element of S exceeds
IsMaximumOf(best, S) ==
  /\ \E x \in S : ~ScoreGT(x, best) /\ ~ScoreGT(best, x)
  /\ \A x \in S : ~ScoreGT(x, best)

\* C20 as stated: for every query the best score of the matching loop is the maximum
\* of the cosine similarities to the samples, and 0 for an empty store.
C20_BestIsMaxSimilarity ==
  \A v \in MatchVectors :
    LET best == BestFrom(v, learnedSamplesRef, 1, Zero)
    IN IF learnedSamplesRef = <<>> THEN best = Zero
       ELSE IsMaximumOf(best, SimilaritiesTo(v))

\* C20 as amended: for every query the best score of the matching loop is the maximum
\* of 0 and the cosine similarities to the samples; so it is 0 for an empty store and
\* when no similarity is positive.
C20_BestIsMaxOfZeroAndSimilarities ==
  \A v \in MatchVectors :
    IsMaximumOf(BestFrom(v, learnedSamplesRef, 1, Zero), SimilaritiesTo(v) \cup {Zero})

\* a pass has run against a store of two samples on a frame with a candidate whose
\* similarities are all negative and a candidate whose best similarity, to the older
\* sample, promotes it
C20_Witness ==
  /\ PassDone
  /\ Len(learnedSamplesRef) = 2
  /\ \E k \in Scored : \A sim \in Similarities(k) : sim.n < 0
  /\ \E k \in Scored :
       /\ ExceedsThreshold(k)
       /\ ScoreGT(computeCosineSimilarity(heldFrame.embeds[k].embeddings[1],
                                          learnedSamplesRef[2].embedding),
                  computeCosineSimilarity(heldFrame.embeds[k].embeddings[1],
                                          learnedSamplesRef[1].embedding))
  /\ Len(detections) = 1

\* ---- the query and the stored vector of a pass with one candidate and one sample ----
QueryVector == heldFrame.embeds[1].embeddings[1]
StoredVector == learnedSamplesRef[1].embedding
Magnitude2(v) == DotFrom(v, v, 1)

\* C21: computeCosineSimilarity(a, b) is 0 whenever a and b differ in length or one of
\* them has zero magnitude (the empty vector included); the pass that compares them
\* runs to its end and promotes nothing.
C21_DegenerateVectorsScoreZero ==
  (\/ Len(QueryVector) # Len(StoredVector)
   \/ Magnitude2(QueryVector) = 0
   \/ Magnitude2(StoredVector) = 0)
  => /\ computeCosineSimilarity(QueryVector, StoredVector) = Zero
     /\ loopError = "none"
     /\ detections = <<>>

\* a pass has compared a query of zero magnitude with a longer stored vector
C21_Witness ==
  /\ PassDone
  /\ QueryVector # <<>>
  /\ Magnitude2(QueryVector) = 0
  /\ Len(StoredVector) > Len(QueryVector)
  /\ Magnitude2(StoredVector) > 0

\* C22: for a and b of equal positive length and nonzero magnitude,
\* computeCosineSimilarity(a, b) = computeCosineSimilarity(b, a).
C22_CosineSymmetric ==
  (/\ Len(QueryVector) = Len(StoredVector)
   /\ Len(QueryVector) > 0
   /\ Magnitude2(QueryVector) > 0
   /\ Magnitude2(StoredVector) > 0)
  => computeCosineSimilarity(QueryVector, StoredVector)
       = computeCosineSimilarity(StoredVector, QueryVector)

\* a pass has compared two vectors of different magnitudes that are neither parallel
\* nor orthogonal
C22_Witness ==
  /\ PassDone
  /\ Len(QueryVector) = Len(StoredVector)
  /\ Magnitude2(QueryVector) > 0
  /\ Magnitude2(StoredVector) > Magnitude2(QueryVector)
  /\ computeCosineSimilarity(QueryVector, StoredVector).n > 0
  /\ detections # <<>>

\* ---- the rule table, stated on the detector's category names ----
VehicleWords ==
  {<<"c", "a", "r">>, <<"t", "r", "u", "c", "k">>, <<"b", "u", "s">>,
   <<"m", "o", "t", "o", "r", "c", "y", "c", "l", "e">>}
PersonWord == <<"p", "e", "r", "s", "o", "n">>
LowerCasedName(k) == ToLowerCase(heldFrame.results.detections[k].categoryName)
NamesVehicle(k) == \E word \in VehicleWords : Includes(LowerCasedName(k), word)
NamesPerson(k) == Includes(LowerCasedName(k), PersonWord)

\* C23: a candidate whose lower-cased category name contains car, truck, bus or
\* motorcycle is a VEHICLE labelled 'VEHICLE', whether or not the name contains person;
\* otherwise one whose name contains person is a PEDESTRIAN labelled 'PEDESTRIAN';
\* every other one is a COLLISION_RISK labelled 'OBJECT'.
C23_RuleTable ==
  /\ Len(Candidates) = Len(heldFrame.results.detections)
  /\ \A k \in 1..Len(Candidates) :
       /\ NamesVehicle(k)
            => Candidates[k].type = "VEHICLE" /\ Candidates[k].label = "VEHICLE"
       /\ ~NamesVehicle(k) /\ NamesPerson(k)
            => Candidates[k].type = "PEDESTRIAN" /\ Candidates[k].label = "PEDESTRIAN"
       /\ ~NamesVehicle(k) /\ ~NamesPerson(k)
            => Candidates[k].type = "COLLISION_RISK" /\ Candidates[k].label = "OBJECT"

\* a pass has classified 'Person Car' as a vehicle next to 'Person' as a pedestrian
C23_Witness ==
  /\ PassDone
  /\ Len(Candidates) = 2
  /\ NamesVehicle(1) /\ NamesPerson(1)
  /\ heldFrame.results.detections[1].categoryName # LowerCasedName(1)
  /\ Candidates[1].type = "VEHICLE"
  /\ ~NamesVehicle(2) /\ NamesPerson(2)
  /\ Candidates[2].type = "PEDESTRIAN"

\* ---- the distance of a candidate ----
BoxOf(k) == heldFrame.results.detections[k].boundingBox
\* 0.45 / (width / 1280 + 0.001) = 14400 / (25 * width + 32)
UnclampedTimes(k, dist) == 14400 * dist.den - dist.num * (25 * BoxOf(k).width + 32)

\* C24: the distance of a candidate is 0.45 / (width / 1280 + 0.001) where that lies
\* between 0.5 and 30, 30 where it is above and 0.5 where it is below; so it is
\* within [0.5, 30], 30 for width 0, 0.5 for the widest boxes, and of two candidates
\* the wider one is not the farther one.
C24_DistanceClamped ==
  \A k \in 1..Len(Candidates) :
    LET dist == Candidates[k].distance
    IN /\ 2 * dist.num >= dist.den
       /\ dist.num <= 30 * dist.den
       /\ \/ UnclampedTimes(k, dist) = 0
          \/ dist = [num |-> 30, den |-> 1] /\ UnclampedTimes(k, dist) > 0
          \/ dist = [num |-> 1, den |-> 2] /\ UnclampedTimes(k, dist) < 0
       /\ BoxOf(k).width = 0 => dist = [num |-> 30, den |-> 1]
       /\ BoxOf(k).width >= 1151 => dist = [num |-> 1, den |-> 2]
       /\ \A j \in 1..Len(Candidates) :
            BoxOf(j).width <= BoxOf(k).width
              => dist.num * Candidates[j].distance.den <= Candidates[j].distance.num * dist.den

\* a pass has given 30 to a box of width 17, less than 30 and more than 0.5 to one of
\* width 18 beside it
C24_Witness ==
  /\ PassDone
  /\ Len(Candidates) = 2
  /\ BoxOf(1).width = 17 /\ Candidates[1].distance = [num |-> 30, den |-> 1]
  /\ BoxOf(2).width = 18 /\ Candidates[2].distance = [num |-> 7200, den |-> 241]

\* ---- the bounding box of a candidate ----
InUnitInterval(c) == 0 <= c.num /\ c.num <= c.den
FractionLE(c, e) == c.num * e.den <= e.num * c.den

\* C25: after a pass on a frame of any resolution whose boxes lie inside the frame,
\* every candidate's bbox (yMin, xMin, yMax, xMax) has its four coordinates in [0, 1],
\* yMin <= yMax and xMin <= xMax.
C25_BboxWithinUnitSquare ==
  PassDone =>
    \A k \in 1..Len(Candidates) :
      LET bbox == Candidates[k].bbox
      IN /\ \A c \in 1..4 : InUnitInterval(bbox[c])
         /\ FractionLE(bbox[1], bbox[3])
         /\ FractionLE(bbox[2], bbox[4])

\* ---- rectangles below 10 source pixels ----
\* the crop of request i is narrower or lower than 10 pixels of its source
SmallSelection(i) ==
  /\ selections[i] # NoSelection
  /\ \/ selections[i].w * selections[i].sourceWidth < 10 * 1000
     \/ selections[i].h * selections[i].sourceHeight < 10 * 1000

\* C26 (training): a training request whose rectangle is below 10 source pixels in
\* width or height creates no sample: it is never sent to the backend nor added to
\* the snapshot, and when it has ended it has failed for want of an embedding.
C26_SmallSelectionNeverTrains ==
  \A i \in Ops :
    SmallSelection(i)
      => /\ ops[i].sample = NoSample
         /\ ops[i].pc \in {"awaitImage", "failed"}
         /\ ops[i].pc = "failed" => ops[i].err \in {"source", "embedding"}

\* ---- what a step applies to the snapshot ----
AppliedInserts == {i \in Ops : Applied(i) /\ ops'[i].kind = "insert"}
AppliedDeletes == {i \in Ops : Applied(i) /\ ops'[i].kind = "delete"}
DeletedIds == {ops'[i].id : i \in AppliedDeletes}

\* C27: once the startup load has completed, the snapshot changes only when a request
\* completes and then by exactly that request: the inserted sample is added, the
\* samples with the deleted id are removed, every other sample stays, whatever other
\* requests are in flight; the mirror is rewritten with the new snapshot in the same
\* step, and any other step leaves it as it is or rewrites it with the snapshot.  So
\* once all requests have completed, snapshot and mirror hold the loaded samples plus
\* the inserted ones minus the deleted ones.
C27_NoUpdateLost ==
  [][(load.pc = "done" /\ app = "mounted" /\ app' = "mounted")
       => /\ Range(learnedSamples')
               = {s \in Range(learnedSamples) \cup {ops'[i].sample : i \in AppliedInserts} :
                    s.id \notin DeletedIds}
          /\ Len(learnedSamples')
               = Cardinality({k \in 1..Len(learnedSamples) : learnedSamples[k].id \notin DeletedIds})
                   + Cardinality(AppliedInserts)
          /\ IF AppliedInserts \cup AppliedDeletes = {}
             THEN localStorage' \in {localStorage, JSONStringify(learnedSamples')}
             ELSE MirrorSamples' = Range(learnedSamples')]_vars

\* after the load, two trainings and no delete have completed with a backend: snapshot
\* and mirror hold the loaded sample and both new samples
C27_Witness ==
  /\ app = "mounted"
  /\ isSupabaseConfigured
  /\ load.pc = "done"
  /\ \A i \in Ops : ops[i].kind = "insert" /\ ops[i].pc = "done"
  /\ \E i, j \in Ops : ops[i].sample # ops[j].sample
  /\ Range(learnedSamples) = {OldSample} \cup {ops[i].sample : i \in Ops}
  /\ MirrorSamples = Range(learnedSamples)

\* ---- the syncing indicator ----
LoadInFlight == load.pc \in {"reqGetAll", "respGetAll"}
SomethingInFlight == LoadInFlight \/ \E i \in Ops : ops[i].pc \in InFlightPhases

\* C28: on a mounted component, whenever a load, an insert or a delete has started and
\* not finished, isSyncing is TRUE; so it turns FALSE only with nothing in flight.
C28_SyncingWhileInFlight ==
  (app = "mounted" /\ SomethingInFlight) => isSyncing

\* ---- the rectangle animate crops ----
\* App.tsx 84-88: vx, vy, vw, vh in source pixels, as fractions
CropRect(bbox) ==
  [vx |-> [num |-> bbox[2].num * videoWidth, den |-> bbox[2].den],
   vy |-> [num |-> bbox[1].num * videoHeight, den |-> bbox[1].den],
   vw |-> [num |-> (bbox[4].num - bbox[2].num) * videoWidth, den |-> bbox[4].den],
   vh |-> [num |-> (bbox[3].num - bbox[1].num) * videoHeight, den |-> bbox[3].den]]
IsPixels(c, pixels) == c.num = pixels * c.den

\* C29: after a pass on a frame of any resolution, the rectangle cropped for each
\* embedded candidate is the box the detector reported for it, in source pixels:
\* x = originX, y = originY, width and height those of the box.
C29_CropIsDetectorBox ==
  PassDone =>
    \A k \in Embedded(Candidates, learnedSamplesRef) :
      LET crop == CropRect(Candidates[k].bbox)
      IN /\ IsPixels(crop.vx, BoxOf(k).originX)
         /\ IsPixels(crop.vy, BoxOf(k).originY)
         /\ IsPixels(crop.vw, BoxOf(k).width)
         /\ IsPixels(crop.vh, BoxOf(k).height)

\* C30: in every reachable state the timestamps of the snapshot do not increase from
\* front to back (newest first, the order of a load from the backend).
C30_SnapshotNewestFirst ==
  \A k \in 1..(Len(learnedSamples) - 1) :
    learnedSamples[k].timestamp >= learnedSamples[k + 1].timestamp

====
